---- MODULE Spec2Model ----
(***************************************************************************)
(* Deployment-Approval-Function: the approval webhook (function_app.py),    *)
(* the identity validator (shared/approval_validator.py) and the GitHub     *)
(* client (shared/github_client.py).                                        *)
(*                                                                          *)
(* Python strings are sequences of one-character strings, so that split,    *)
(* strip and lower are computed character by character.  JSON values that   *)
(* the code reads as identities are tagged records (null, string, number).  *)
(***************************************************************************)
EXTENDS Naturals, Sequences, FiniteSets

VARIABLES
    env,               \* os.environ: GITHUB_TOKEN, GITHUB_WEBHOOK_SECRET, AUTHORIZED_USER
    pc,                \* position of approval_webhook in the current request
    req,               \* the HTTP request: headers, raw body, outcome of get_json, action
    callback_url,      \* req_body.get("deployment_callback_url")
    deployment,        \* req_body.get("deployment", {})
    workflow,          \* req_body.get("workflow", {})
    repository,        \* req_body.get("repository", {})
    sender,            \* webhook_payload.get("sender", {})
    workflow_run,      \* what get_workflow_run returned to the validator
    validation_result, \* what validate_deployment_user returned
    callback_result,   \* rejection_result / approval_result
    calls,             \* the outbound Gateway calls of this request, in order
    response,          \* the func.HttpResponse returned
    user_string,       \* argument of _extract_username (extraction specification)
    username           \* its return value (extraction specification)

vars == <<env, pc, req, callback_url, deployment, workflow, repository, sender,
          workflow_run, validation_result, callback_result, calls, response,
          user_string, username>>

handlerVars == <<env, pc, req, callback_url, deployment, workflow, repository, sender,
                 workflow_run, validation_result, callback_result, calls, response>>

-----------------------------------------------------------------------------
(* Strings *)

\* Longest argument of _extract_username the extraction specification draws.
MaxLen == 3

\* The characters the arguments are made of: letters in both cases, the three
\* delimiters of _extract_username and whitespace.
Alphabet == {"a", "A", "@", "\\", "/", " "}

RECURSIVE StringsOfLen(_)
StringsOfLen(n) ==
    IF n = 0 THEN {<<>>}
    ELSE {<<c>> \o s : c \in Alphabet, s \in StringsOfLen(n - 1)}

Strings == UNION {StringsOfLen(n) : n \in 0..MaxLen}

\* str.split(sep) for a one-character separator: the list of the parts.
RECURSIVE Split(_, _)
Split(s, sep) ==
    IF s = <<>> THEN << <<>> >>
    ELSE LET rest == Split(Tail(s), sep)
         IN  IF Head(s) = sep
             THEN << <<>> >> \o rest
             ELSE << <<Head(s)>> \o rest[1] >> \o Tail(rest)

\* sep in s
Contains(s, sep) == \E i \in 1..Len(s) : s[i] = sep

IsSpace(c) == c = " "

RECURSIVE LStrip(_)
LStrip(s) == IF s # <<>> /\ IsSpace(Head(s)) THEN LStrip(Tail(s)) ELSE s

RECURSIVE RStrip(_)
RStrip(s) ==
    IF s # <<>> /\ IsSpace(s[Len(s)]) THEN RStrip(SubSeq(s, 1, Len(s) - 1)) ELSE s

\* str.strip()
Strip(s) == LStrip(RStrip(s))

LowerChar(c) == CASE c = "A" -> "a" [] c = "B" -> "b" [] c = "O" -> "o" [] OTHER -> c

\* str.lower()
Lower(s) == [i \in 1..Len(s) |-> LowerChar(s[i])]

\* user_string.split("@")[0]
StripEmailDomain(s) == IF Contains(s, "@") THEN Split(s, "@")[1] ELSE s

\* user_string.split("\\")[-1]
StripBackslashPrefix(s) ==
    IF Contains(s, "\\") THEN LET p == Split(s, "\\") IN p[Len(p)] ELSE s

\* user_string.split("/")[-1]
StripSlashPrefix(s) ==
    IF Contains(s, "/") THEN LET p == Split(s, "/") IN p[Len(p)] ELSE s

\* A slip in the order of the steps: the slash prefix is removed first.
ExtractSlashFirst(s) ==
    IF s = <<>> THEN <<>>
    ELSE Strip(StripBackslashPrefix(StripEmailDomain(StripSlashPrefix(s))))

\* ApprovalValidator._extract_username on a str
_extract_username(s) ==
    IF s = <<>> THEN <<>>
    ELSE Strip(StripSlashPrefix(StripBackslashPrefix(StripEmailDomain(s))))

-----------------------------------------------------------------------------
(* JSON values and the fields of the webhook payload *)

\* A JSON scalar read as an identity: null (or an absent key read with .get),
\* a string, or a non-zero number (a value of unexpected type).
Null == [kind |-> "null", str |-> <<>>]
Str(s) == [kind |-> "str", str |-> s]
Num == [kind |-> "num", str |-> <<>>]

\* Python truth value of such a scalar ("not initiated_by", "if run_id").
Truthy(v) == v.kind = "num" \/ (v.kind = "str" /\ v.str # <<>>)

\* deployment.payload.actor, when the key is there
ActorValues == {Null, Str(<<>>), Str(<<"A">>), Str(<<"b">>), Num}

\* deployment.payload: key absent, null, or an object with or without "actor"
Payloads ==
    {[kind |-> "absent", has_actor |-> FALSE, actor |-> Null],
     [kind |-> "null", has_actor |-> FALSE, actor |-> Null],
     [kind |-> "obj", has_actor |-> FALSE, actor |-> Null]}
    \cup {[kind |-> "obj", has_actor |-> TRUE, actor |-> v] : v \in ActorValues}

NoPayload == [kind |-> "absent", has_actor |-> FALSE, actor |-> Null]

\* req_body["deployment"]: an object (or the {} default) or null
Deployments ==
    {[kind |-> "null", payload |-> NoPayload, environment |-> Null]}
    \cup {[kind |-> "obj", payload |-> p, environment |-> Str(<<"p">>)] : p \in Payloads}

\* workflow.triggering_actor: key absent, a scalar, or an object with login / name
TriggeringActors ==
    {[kind |-> "absent", value |-> Null, login |-> Null, name |-> Null]}
    \cup {[kind |-> "value", value |-> v, login |-> Null, name |-> Null] :
            v \in {Null, Str(<<"o", "/", "a">>)}}
    \cup {[kind |-> "obj", value |-> Null, login |-> l, name |-> n] :
            <<l, n>> \in {<<Null, Null>>, <<Str(<<"A">>), Str(<<"b">>)>>,
                          <<Str(<<>>), Str(<<"b">>)>>}}

NoTriggeringActor == [kind |-> "absent", value |-> Null, login |-> Null, name |-> Null]

\* req_body["workflow"]: an object (or the {} default) or null
Workflows ==
    {[kind |-> "null", id |-> Null, triggering_actor |-> NoTriggeringActor]}
    \cup {[kind |-> "obj", id |-> i, triggering_actor |-> t] :
            i \in {Null, Num}, t \in TriggeringActors}

\* req_body["repository"]: an object (or the {} default) or null
Repositories ==
    {[kind |-> "null", owner_login |-> Null, name |-> Null],
     [kind |-> "obj", owner_login |-> Str(<<"o">>), name |-> Str(<<"r">>)],
     [kind |-> "obj", owner_login |-> Null, name |-> Str(<<"r">>)],
     [kind |-> "obj", owner_login |-> Str(<<"o">>), name |-> Null]}

\* req_body["sender"]: key absent ({}), a non-empty string, or an object
Senders ==
    {[kind |-> "absent", login |-> Null], [kind |-> "str", login |-> Null]}
    \cup {[kind |-> "obj", login |-> l] :
            l \in {Null, Str(<<"A">>), Str(<<"b">>), Str(<<" ">>)}}

CallbackUrls == {Null, Str(<<"u">>)}

\* The JSON body of GET .../actions/runs/{run_id}, or None
NoRun == [kind |-> "none",
          triggering_actor |-> [kind |-> "absent", login |-> Null],
          actor |-> [kind |-> "absent", login |-> Null]]

RunBodies ==
    {[kind |-> "empty",
      triggering_actor |-> [kind |-> "absent", login |-> Null],
      actor |-> [kind |-> "absent", login |-> Null]]}
    \cup {[kind |-> "obj", triggering_actor |-> t, actor |-> a] :
            t \in {[kind |-> "absent", login |-> Null],
                   [kind |-> "null", login |-> Null],
                   [kind |-> "obj", login |-> Null],
                   [kind |-> "obj", login |-> Str(<<"b">>)]},
            a \in {[kind |-> "absent", login |-> Null],
                   [kind |-> "obj", login |-> Null],
                   [kind |-> "obj", login |-> Str(<<"A">>)]}}

\* What requests.get gives get_workflow_run: a RequestException or a 2xx body
RunResponses ==
    {[kind |-> "error", body |-> NoRun]} \cup {[kind |-> "ok", body |-> b] : b \in RunBodies}

\* What requests.post gives the callback: a RequestException, 2xx with an
\* empty body, 2xx with a JSON body
CallbackResponses == {"error", "empty", "json"}

\* What requests.get gives add_workflow_summary_error
JobsResponses == {"error", "no_jobs", "jobs"}

-----------------------------------------------------------------------------
(* The request and the environment *)

Keys == {"k1", "k2"}
Bodies == {"raw", "other"}

\* hmac.new(secret, msg, sha256).hexdigest(): an ideal MAC, one digest per
\* key and message.
HmacSha256(key, msg) == [key |-> key, msg |-> msg]

NoSignature == [present |-> FALSE, prefix |-> "", digest |-> HmacSha256("", "")]

\* X-Hub-Signature-256 headers on a request whose body is "raw": absent,
\* signed with either key, or a signature of another body.
SignatureHeaders ==
    {NoSignature}
    \cup {[present |-> TRUE, prefix |-> "sha256=", digest |-> HmacSha256(k, "raw")] : k \in Keys}
    \cup {[present |-> TRUE, prefix |-> "sha256=", digest |-> HmacSha256("k1", "other")]}

EventTypes == {"deployment_protection_rule", "push"}
Actions == {"requested", "created"}

\* json: what req.get_json() does (raises ValueError, returns a non-object,
\* returns an object); action: req_body.get("action") of an object.
Requests ==
    {[body |-> "raw", json |-> j, action |-> "", event |-> e, signature |-> s] :
        j \in {"malformed", "nonobject"}, e \in EventTypes, s \in SignatureHeaders}
    \cup {[body |-> "raw", json |-> "object", action |-> a, event |-> e, signature |-> s] :
        a \in Actions, e \in EventTypes, s \in SignatureHeaders}

NoRequest == [body |-> "", json |-> "", action |-> "", event |-> "", signature |-> NoSignature]

\* os.environ.get("AUTHORIZED_USER", "APZW3PRD_BCP"): a name with an email
\* domain, or the variable set to the empty string.
AuthorizedUsers == {<<"a", "@", "c">>, <<>>}

\* "" is an unset (or empty) variable: os.environ.get gives None or "".
Environments ==
    [GITHUB_TOKEN : {"", "t"}, GITHUB_WEBHOOK_SECRET : {"", "k1"},
     AUTHORIZED_USER : AuthorizedUsers]

-----------------------------------------------------------------------------
(* shared/approval_validator.py *)

\* What a step of the resolution leaves: initiated_by, or the exception raised.
Resolved(v) == [raised |-> "", value |-> v]
Raised(e) == [raised |-> e, value |-> Null]

\* Method 1: deployment["payload"]["actor"]; `"actor" in None` raises.
FromDeploymentPayload(d) ==
    IF d.payload.kind = "absent" THEN Resolved(Null)
    ELSE IF d.payload.kind = "null" THEN Raised("TypeError")
    ELSE IF d.payload.has_actor THEN Resolved(d.payload.actor)
    ELSE Resolved(Null)

\* Method 2: workflow["triggering_actor"], tried when initiated_by is falsy.
FromTriggeringActor(w, initiated_by) ==
    LET t == w.triggering_actor
    IN  IF ~Truthy(initiated_by) /\ t.kind # "absent"
        THEN IF t.kind = "obj"
             THEN (IF Truthy(t.login) THEN t.login ELSE t.name)
             ELSE t.value
        ELSE initiated_by

\* A slip: method 3 without its "not initiated_by" guard.
FromSenderOverriding(s, initiated_by) ==
    IF s.kind \in {"str", "obj"}
    THEN IF s.kind = "str" THEN Raised("AttributeError") ELSE Resolved(s.login)
    ELSE Resolved(initiated_by)

\* Method 3: sender.get("login"), tried when initiated_by is falsy and sender
\* is truthy; a string has no .get.
FromSender(s, initiated_by) ==
    IF ~Truthy(initiated_by) /\ s.kind \in {"str", "obj"}
    THEN IF s.kind = "str" THEN Raised("AttributeError") ELSE Resolved(s.login)
    ELSE Resolved(initiated_by)

\* Methods 1 to 3, in the order of the code.
ResolveFromPayload(d, w, s) ==
    LET m1 == FromDeploymentPayload(d)
    IN  IF m1.raised # "" THEN m1
        ELSE FromSender(s, FromTriggeringActor(w, m1.value))

\* Method 4 is entered: not initiated_by and run_id, then repo_owner and repo_name.
NeedsWorkflowRun(initiated_by, w, r) ==
    ~Truthy(initiated_by) /\ Truthy(w.id) /\ Truthy(r.owner_login) /\ Truthy(r.name)

\* Method 4, on what get_workflow_run returned: the "triggering_actor" key
\* when it is there, elif the "actor" key; None.get raises.
FromWorkflowRun(run, initiated_by) ==
    IF run.kind \in {"none", "empty"} THEN Resolved(initiated_by)
    ELSE IF run.triggering_actor.kind # "absent"
         THEN IF run.triggering_actor.kind = "null" THEN Raised("AttributeError")
              ELSE Resolved(run.triggering_actor.login)
    ELSE IF run.actor.kind # "absent" THEN Resolved(run.actor.login)
    ELSE Resolved(initiated_by)

Unknown == <<"U", "n", "k", "n", "o", "w", "n">>

CouldNotDetermine == "Could not determine deployment initiator"

\* A slip: the failure result without the "Unknown" literal.
UnknownResultUnnamed(error) ==
    [returned |-> TRUE, is_valid |-> FALSE, initiated_by |-> Null,
     username_checked |-> Null, error |-> error, run_id |-> Null]

\* The two dictionaries with "initiated_by": "Unknown"
UnknownResult(error) ==
    [returned |-> TRUE, is_valid |-> FALSE, initiated_by |-> Str(Unknown),
     username_checked |-> Null, error |-> error, run_id |-> Null]

NoValidation ==
    [returned |-> FALSE, is_valid |-> FALSE, initiated_by |-> Null,
     username_checked |-> Null, error |-> "", run_id |-> Null]

\* A slip: the comparison without .lower()
IsAuthorizedCaseSensitive(username_clean, authorized_clean) ==
    username_clean = authorized_clean

\* username_clean.lower() == authorized_clean.lower()
IsAuthorized(username_clean, authorized_clean) ==
    Lower(username_clean) = Lower(authorized_clean)

\* The end of validate_deployment_user, and its except clause: a
\* non-string initiated_by raises inside _extract_username.
CompareWithAuthorized(outcome, run_id, authorized_user) ==
    IF outcome.raised # "" THEN UnknownResult(outcome.raised)
    ELSE IF ~Truthy(outcome.value) THEN UnknownResult(CouldNotDetermine)
    ELSE IF outcome.value.kind # "str" THEN UnknownResult("TypeError")
    ELSE [returned |-> TRUE,
          is_valid |-> IsAuthorized(_extract_username(outcome.value.str),
                                    _extract_username(authorized_user)),
          initiated_by |-> outcome.value,
          username_checked |-> Str(_extract_username(outcome.value.str)),
          error |-> "",
          run_id |-> IF Truthy(run_id) THEN run_id ELSE Null]

-----------------------------------------------------------------------------
(* shared/github_client.py *)

\* get_workflow_run: the parsed body, or None on a RequestException
get_workflow_run(resp) == IF resp.kind = "error" THEN NoRun ELSE resp.body

\* requests.post raises MissingSchema (a RequestException) on a URL that is
\* None or empty, before anything is sent.
PostFails(url, http) == ~Truthy(url) \/ url.kind # "str" \/ http = "error"

\* approve_deployment: {"error": ...}, the body, or {"status": "approved"}
approve_deployment(url, http) ==
    IF PostFails(url, http) THEN [kind |-> "error", text |-> "Error approving deployment"]
    ELSE IF http = "json" THEN [kind |-> "body", text |-> ""]
    ELSE [kind |-> "status", text |-> "approved"]

\* reject_deployment: {"error": ...}, the body, or {"status": "rejected"}
reject_deployment(url, http) ==
    IF PostFails(url, http) THEN [kind |-> "error", text |-> "Error rejecting deployment"]
    ELSE IF http = "json" THEN [kind |-> "body", text |-> ""]
    ELSE [kind |-> "status", text |-> "rejected"]

\* add_workflow_summary_error: True only when the run has jobs
add_workflow_summary_error(http) == http = "jobs"

NoResult == [kind |-> "", text |-> ""]

NoComment == [text |-> "", initiated_by |-> Null, environment |-> Null]

\* One outbound call: the operation, the callback URL and comment it was
\* given, and whether its HTTP request failed.
Call(op, url, comment, failed) ==
    [op |-> op, callback_url |-> url, comment |-> comment, failed |-> failed]

-----------------------------------------------------------------------------
(* function_app.py *)

\* A slip: a request without the header is let through.
VerifySignatureAbsentOk(payload_body, signature_header, secret) ==
    \/ ~signature_header.present
    \/ /\ signature_header.prefix = "sha256="
       /\ signature_header.digest = HmacSha256(secret, payload_body)

\* verify_signature: False without the header, else compare_digest of
\* "sha256=" + hexdigest with the header.
verify_signature(payload_body, signature_header, secret) ==
    /\ signature_header.present
    /\ signature_header.prefix = "sha256="
    /\ signature_header.digest = HmacSha256(secret, payload_body)

\* A slip: the filter looks at the event type alone.
NotProtectionRuleEvent(event_type, action) ==
    event_type # "deployment_protection_rule"

\* event_type != "deployment_protection_rule" or action != "requested"
NotProtectionRuleRequest(event_type, action) ==
    event_type # "deployment_protection_rule" \/ action # "requested"

\* error_message = f"El usuario ... no se encuentra autorizado para desplegar en {environment_name}"
error_message(environment_name) ==
    [text |-> "El usuario utilizado para el despliegue no se encuentra autorizado para desplegar en",
     initiated_by |-> Null, environment |-> environment_name]

\* success_message = f"Usuario autorizado: {initiated_by}. Despliegue permitido en {environment_name}"
success_message(initiated_by, environment_name) ==
    [text |-> "Usuario autorizado. Despliegue permitido en",
     initiated_by |-> initiated_by, environment |-> environment_name]

\* func.HttpResponse(json.dumps({...}), status_code=...)
HttpResponse(status_code, status, error, message, initiated_by, result) ==
    [status_code |-> status_code, status |-> status, error |-> error,
     message |-> message, initiated_by |-> initiated_by, result |-> result]

NoResponse == HttpResponse(0, "", "", "", Null, NoResult)

InvalidSignature == HttpResponse(401, "", "Invalid signature", "", Null, NoResult)

MissingToken ==
    HttpResponse(500, "", "GitHub configuration is missing (GITHUB_TOKEN)", "", Null, NoResult)

Skipped ==
    HttpResponse(200, "", "", "Not a deployment protection rule request, skipping",
                 Null, NoResult)

\* except ValueError
InvalidBody == HttpResponse(400, "", "Invalid request body", "", Null, NoResult)

\* except Exception
UnexpectedError ==
    HttpResponse(500, "", "Unexpected error processing webhook", "", Null, NoResult)

\* A slip: a failed callback turned into a failure of the request.
RejectedResponseFailing(result, rejection_result) ==
    IF rejection_result.kind = "error" THEN UnexpectedError
    ELSE HttpResponse(200, "rejected", "", "", result.initiated_by, rejection_result)

\* The response of the rejection branch
RejectedResponse(result, rejection_result) ==
    HttpResponse(200, "rejected", "", "", result.initiated_by, rejection_result)

\* The response of the approval branch
ApprovedResponse(result, approval_result) ==
    HttpResponse(200, "approved", "", "", result.initiated_by, approval_result)

UnreadDeployment == [kind |-> "unread", payload |-> NoPayload, environment |-> Null]
UnreadWorkflow == [kind |-> "unread", id |-> Null, triggering_actor |-> NoTriggeringActor]
UnreadRepository == [kind |-> "unread", owner_login |-> Null, name |-> Null]
UnreadSender == [kind |-> "unread", login |-> Null]

\* The state of a request before any of it is read.
Fresh ==
    /\ callback_url = Null
    /\ deployment = UnreadDeployment
    /\ workflow = UnreadWorkflow
    /\ repository = UnreadRepository
    /\ sender = UnreadSender
    /\ workflow_run = NoRun
    /\ validation_result = NoValidation
    /\ callback_result = NoResult
    /\ calls = <<>>
    /\ response = NoResponse

Init ==
    /\ env \in Environments
    /\ pc = "idle"
    /\ req = NoRequest
    /\ Fresh
    /\ user_string = <<>>
    /\ username = <<>>

\* The host delivers a POST to approval_webhook.
Receive ==
    /\ pc = "idle"
    /\ pc' = "received"
    /\ req' \in Requests
    /\ UNCHANGED <<env, callback_url, deployment, workflow, repository, sender,
                   workflow_run, validation_result, callback_result, calls, response,
                   user_string, username>>

\* The host sends the response; the locals of the call are gone and nothing of
\* the request is kept for the next one.
Complete ==
    /\ pc = "done"
    /\ pc' = "idle"
    /\ req' = NoRequest
    /\ callback_url' = Null
    /\ deployment' = UnreadDeployment
    /\ workflow' = UnreadWorkflow
    /\ repository' = UnreadRepository
    /\ sender' = UnreadSender
    /\ workflow_run' = NoRun
    /\ validation_result' = NoValidation
    /\ callback_result' = NoResult
    /\ calls' = <<>>
    /\ response' = NoResponse
    /\ UNCHANGED <<env, user_string, username>>

\* return func.HttpResponse(...) out of the handler
Return(r) ==
    /\ response' = r
    /\ pc' = "done"

\* req_body = req.get_json(): ValueError on a body that is not JSON
ParseBody ==
    /\ pc = "received"
    /\ IF req.json = "malformed" THEN Return(InvalidBody)
       ELSE pc' = "parsed" /\ UNCHANGED response
    /\ UNCHANGED <<env, req, callback_url, deployment, workflow, repository, sender,
                   workflow_run, validation_result, callback_result, calls,
                   user_string, username>>

\* if webhook_secret: ... if not verify_signature(...): return 401
VerifySignature ==
    /\ pc = "parsed"
    /\ IF /\ env.GITHUB_WEBHOOK_SECRET # ""
          /\ ~verify_signature(req.body, req.signature, env.GITHUB_WEBHOOK_SECRET)
       THEN Return(InvalidSignature)
       ELSE pc' = "verified" /\ UNCHANGED response
    /\ UNCHANGED <<env, req, callback_url, deployment, workflow, repository, sender,
                   workflow_run, validation_result, callback_result, calls,
                   user_string, username>>

\* if not github_token: return 500
CheckToken ==
    /\ pc = "verified"
    /\ IF env.GITHUB_TOKEN = "" THEN Return(MissingToken)
       ELSE pc' = "configured" /\ UNCHANGED response
    /\ UNCHANGED <<env, req, callback_url, deployment, workflow, repository, sender,
                   workflow_run, validation_result, callback_result, calls,
                   user_string, username>>

\* req_body.get("action") raises AttributeError on a body that is no object;
\* then the event filter.
FilterEvent ==
    /\ pc = "configured"
    /\ IF req.json # "object" THEN Return(UnexpectedError)
       ELSE IF NotProtectionRuleRequest(req.event, req.action) THEN Return(Skipped)
       ELSE pc' = "filtered" /\ UNCHANGED response
    /\ UNCHANGED <<env, req, callback_url, deployment, workflow, repository, sender,
                   workflow_run, validation_result, callback_result, calls,
                   user_string, username>>

\* The fields of the body the handler goes on with; repository.get,
\* deployment.get and workflow.get raise AttributeError on null.
ExtractDeploymentInfo ==
    /\ pc = "filtered"
    /\ callback_url' \in CallbackUrls
    /\ deployment' \in Deployments
    /\ workflow' \in Workflows
    /\ repository' \in Repositories
    /\ IF "null" \in {deployment'.kind, workflow'.kind, repository'.kind}
       THEN Return(UnexpectedError)
       ELSE pc' = "extracted" /\ UNCHANGED response
    /\ UNCHANGED <<env, req, sender, workflow_run, validation_result, callback_result,
                   calls, user_string, username>>

\* validator.validate_deployment_user(req_body), up to its return or to its
\* call of get_workflow_run
ValidateDeploymentUser ==
    /\ pc = "extracted"
    /\ sender' \in Senders
    /\ LET outcome == ResolveFromPayload(deployment, workflow, sender')
       IN  IF outcome.raised = "" /\ NeedsWorkflowRun(outcome.value, workflow, repository)
           THEN pc' = "lookup" /\ UNCHANGED validation_result
           ELSE /\ pc' = "validated"
                /\ validation_result' =
                     CompareWithAuthorized(outcome, workflow.id, env.AUTHORIZED_USER)
    /\ UNCHANGED <<env, req, callback_url, deployment, workflow, repository,
                   workflow_run, callback_result, calls, response, user_string, username>>

\* self.github_client.get_workflow_run(...) and the rest of the validator
GetWorkflowRun ==
    /\ pc = "lookup"
    /\ \E resp \in RunResponses :
         /\ workflow_run' = get_workflow_run(resp)
         /\ calls' = Append(calls, Call("get_workflow_run", Null, NoComment,
                                        resp.kind = "error"))
         /\ validation_result' =
              CompareWithAuthorized(
                  FromWorkflowRun(workflow_run',
                                  ResolveFromPayload(deployment, workflow, sender).value),
                  workflow.id, env.AUTHORIZED_USER)
    /\ pc' = "validated"
    /\ UNCHANGED <<env, req, callback_url, deployment, workflow, repository, sender,
                   callback_result, response, user_string, username>>

\* What requests.post can do with this URL
PostOutcomes(url) == IF Truthy(url) THEN CallbackResponses ELSE {"error"}

\* A slip: the condition without its "not".
TakesRejectionInverted(result) == result.is_valid

\* if not validation_result["is_valid"]
TakesRejection(result) == ~result.is_valid

\* A slip: the summary call without its "if run_id" guard.
AfterRejectionAlwaysSummary(run_id) == "summary"

\* if run_id: the summary call follows the rejection, else the response does
AfterRejection(run_id) == IF Truthy(run_id) THEN "summary" ELSE "respond"

\* github_client.reject_deployment(callback_url=..., comment=error_message)
RejectDeployment ==
    /\ pc = "validated"
    /\ TakesRejection(validation_result)
    /\ \E http \in PostOutcomes(callback_url) :
         /\ callback_result' = reject_deployment(callback_url, http)
         /\ calls' = Append(calls, Call("reject_deployment", callback_url,
                                        error_message(deployment.environment),
                                        PostFails(callback_url, http)))
    /\ pc' = AfterRejection(workflow.id)
    /\ UNCHANGED <<env, req, callback_url, deployment, workflow, repository, sender,
                   workflow_run, validation_result, response, user_string, username>>

\* if run_id: github_client.add_workflow_summary_error(...); its result is dropped
AddWorkflowSummaryError ==
    /\ pc = "summary"
    /\ \E http \in JobsResponses :
         calls' = Append(calls, Call("add_workflow_summary_error", Null,
                                     error_message(deployment.environment),
                                     http = "error"))
    /\ pc' = "respond"
    /\ UNCHANGED <<env, req, callback_url, deployment, workflow, repository, sender,
                   workflow_run, validation_result, callback_result, response,
                   user_string, username>>

\* github_client.approve_deployment(callback_url=..., comment=success_message)
ApproveDeployment ==
    /\ pc = "validated"
    /\ ~TakesRejection(validation_result)
    /\ \E http \in PostOutcomes(callback_url) :
         /\ callback_result' = approve_deployment(callback_url, http)
         /\ calls' = Append(calls, Call("approve_deployment", callback_url,
                                        success_message(validation_result.initiated_by,
                                                        deployment.environment),
                                        PostFails(callback_url, http)))
    /\ pc' = "respond"
    /\ UNCHANGED <<env, req, callback_url, deployment, workflow, repository, sender,
                   workflow_run, validation_result, response, user_string, username>>

\* The 200 response of either branch
Respond ==
    /\ pc = "respond"
    /\ Return(IF TakesRejection(validation_result)
              THEN RejectedResponse(validation_result, callback_result)
              ELSE ApprovedResponse(validation_result, callback_result))
    /\ UNCHANGED <<env, req, callback_url, deployment, workflow, repository, sender,
                   workflow_run, validation_result, callback_result, calls,
                   user_string, username>>

Next ==
    \/ Receive
    \/ ParseBody
    \/ VerifySignature
    \/ CheckToken
    \/ FilterEvent
    \/ ExtractDeploymentInfo
    \/ ValidateDeploymentUser
    \/ GetWorkflowRun
    \/ RejectDeployment
    \/ AddWorkflowSummaryError
    \/ ApproveDeployment
    \/ Respond
    \/ Complete

Spec == Init /\ [][Next]_vars

-----------------------------------------------------------------------------
(* _extract_username on its own: every string up to MaxLen *)

InitExtract ==
    /\ env = [GITHUB_TOKEN |-> "t", GITHUB_WEBHOOK_SECRET |-> "",
              AUTHORIZED_USER |-> <<"a", "@", "c">>]
    /\ pc = "call"
    /\ req = NoRequest
    /\ Fresh
    /\ user_string \in Strings
    /\ username = <<>>

\* username_clean = self._extract_username(initiated_by)
ExtractUsername ==
    /\ pc = "call"
    /\ username' = _extract_username(user_string)
    /\ pc' = "return"
    /\ UNCHANGED <<env, req, callback_url, deployment, workflow, repository, sender,
                   workflow_run, validation_result, callback_result, calls, response,
                   user_string>>

NextExtract == ExtractUsername

SpecExtract == InitExtract /\ [][NextExtract]_vars

-----------------------------------------------------------------------------
(* Properties *)

Called(op) == \E i \in DOMAIN calls : calls[i].op = op

CountCalls(op) == Cardinality({i \in DOMAIN calls : calls[i].op = op})

\* A non-empty identity string
Identity(v) == v.kind = "str" /\ v.str # <<>>

\* The event passed the type/action filter.
PassedFilter ==
    /\ req.json = "object"
    /\ req.event = "deployment_protection_rule"
    /\ req.action = "requested"

\* The identity strings the payload and the looked-up run carry.
CarriedIdentities ==
    {deployment.payload.actor, workflow.triggering_actor.value,
     workflow.triggering_actor.login, workflow.triggering_actor.name, sender.login,
     workflow_run.triggering_actor.login, workflow_run.actor.login}

\* C1: is_valid is true exactly when a non-empty initiator identity was
\* resolved from the payload or the run lookup and its _extract_username form
\* equals that of AUTHORIZED_USER ignoring case; approve_deployment is called
\* only then, and never when is_valid is false.
C1_ApproveOnlyAuthorized ==
    LET initiator == validation_result.initiated_by
        matches ==
            /\ Identity(initiator)
            /\ initiator \in CarriedIdentities
            /\ Lower(_extract_username(initiator.str))
                 = Lower(_extract_username(env.AUTHORIZED_USER))
    IN  /\ validation_result.returned => (validation_result.is_valid <=> matches)
        /\ Called("approve_deployment") => validation_result.returned /\ matches
        /\ ~validation_result.is_valid => ~Called("approve_deployment")

\* An approval of "A" against AUTHORIZED_USER "a@c": case and domain ignored.
C1_Witness ==
    /\ pc = "done"
    /\ response.status = "approved"
    /\ Called("approve_deployment")
    /\ validation_result.initiated_by = Str(<<"A">>)
    /\ env.AUTHORIZED_USER = <<"a", "@", "c">>

\* C2: approve_deployment and reject_deployment are invoked only when
\* deployment_callback_url is present and the event passed the filter.
C2_CallbackOnlyWithUrl ==
    \A i \in DOMAIN calls :
        calls[i].op \in {"approve_deployment", "reject_deployment"}
            => Truthy(calls[i].callback_url) /\ PassedFilter

\* GITHUB_WEBHOOK_SECRET is set and the X-Hub-Signature-256 header is absent
\* or is not "sha256=" + HMAC-SHA256(secret, raw body).
BadSignature ==
    /\ pc # "idle"
    /\ env.GITHUB_WEBHOOK_SECRET # ""
    /\ \/ ~req.signature.present
       \/ req.signature.prefix # "sha256="
       \/ req.signature.digest.key # env.GITHUB_WEBHOOK_SECRET
       \/ req.signature.digest.msg # req.body

NonMatching ==
    /\ pc # "idle"
    /\ req.event # "deployment_protection_rule" \/ req.action # "requested"

NoDecisionCall == ~Called("approve_deployment") /\ ~Called("reject_deployment")

\* C4 as stated: every non-matching request gets the skip response with
\* status 200 and no approve or reject call.
C4_Original ==
    NonMatching =>
        /\ NoDecisionCall
        /\ pc = "done" => response.status_code = 200 /\ response = Skipped

\* C4: a non-matching request never leads to an approve or reject call; when
\* its body is a JSON object, its signature passed (or no secret is set) and
\* GITHUB_TOKEN is set, it gets the skip response with status 200.
C4_NonMatchingSkipped ==
    NonMatching =>
        /\ NoDecisionCall
        /\ pc = "done" /\ req.json = "object" /\ ~BadSignature /\ env.GITHUB_TOKEN # ""
             => response.status_code = 200 /\ response = Skipped

C4_Witness ==
    /\ pc = "done"
    /\ req.event = "push"
    /\ req.action = "requested"
    /\ response = Skipped
    /\ calls = <<>>

\* C5: when the validator returned is_valid false, reject_deployment is called
\* exactly once with a non-empty comment, approve_deployment never, and the
\* response is 200 with status "rejected".
C5_RejectOnce ==
    validation_result.returned /\ ~validation_result.is_valid =>
        /\ ~Called("approve_deployment")
        /\ CountCalls("reject_deployment") <= 1
        /\ \A i \in DOMAIN calls :
              calls[i].op = "reject_deployment" => calls[i].comment.text # ""
        /\ pc = "done" =>
              /\ CountCalls("reject_deployment") = 1
              /\ response.status_code = 200
              /\ response.status = "rejected"

\* A resolved initiator "b" that is not the authorized user
C5_Witness ==
    /\ pc = "done"
    /\ PassedFilter
    /\ validation_result.initiated_by = Str(<<"b">>)
    /\ ~validation_result.is_valid
    /\ CountCalls("reject_deployment") = 1
    /\ response.status = "rejected"


\* What each strategy of the chain finds in the payload (null when nothing).
Strategy1 ==
    IF deployment.payload.kind = "obj" /\ deployment.payload.has_actor
    THEN deployment.payload.actor ELSE Null

Strategy2 ==
    LET t == workflow.triggering_actor
    IN  IF t.kind = "value" THEN t.value
        ELSE IF t.kind = "obj" THEN (IF Identity(t.login) THEN t.login ELSE t.name)
        ELSE Null

Strategy3 == IF sender.kind = "obj" THEN sender.login ELSE Null

\* An exception was caught inside validate_deployment_user.
ResolutionRaised ==
    validation_result.returned /\ validation_result.error \notin {"", CouldNotDetermine}

\* get_workflow_run is called only when strategies 1-3 yield nothing and
\* workflow.id, the owner login and the repository name are all there.
LookupOnlyAsLastResort ==
    Called("get_workflow_run") =>
        /\ ~Identity(Strategy1) /\ ~Identity(Strategy2) /\ ~Identity(Strategy3)
        /\ Truthy(workflow.id)
        /\ Identity(repository.owner_login)
        /\ Identity(repository.name)

\* initiated_by is what the earliest of strategies 1-3 with a non-empty
\* identity found.
FirstMatchWins ==
    LET initiator == validation_result.initiated_by
    IN  /\ Identity(Strategy1) => initiator = Strategy1
        /\ ~Identity(Strategy1) /\ Identity(Strategy2) => initiator = Strategy2
        /\ ~Identity(Strategy1) /\ ~Identity(Strategy2) /\ Identity(Strategy3)
             => initiator = Strategy3

\* C6 as stated: for every payload, initiated_by is the value of the earliest
\* strategy that yields a non-empty identity, and the lookup is a last resort.
C6_Original ==
    /\ validation_result.returned => FirstMatchWins
    /\ LookupOnlyAsLastResort

\* C6: whenever resolution returns without having caught an exception,
\* initiated_by is the value of the earliest strategy that yields a non-empty
\* identity (a later strategy never overrides an earlier one; an identity
\* that none of strategies 1-3 gave is a login of the looked-up run), and
\* get_workflow_run is called only as the last resort; when a step raised,
\* initiated_by is "Unknown" whatever the later strategies carry.
C6_FirstMatchWins ==
    /\ ResolutionRaised => validation_result.initiated_by = Str(Unknown)
    /\ validation_result.returned /\ ~ResolutionRaised =>
          /\ FirstMatchWins
          /\ ~Identity(Strategy1) /\ ~Identity(Strategy2) /\ ~Identity(Strategy3)
               /\ validation_result.initiated_by # Str(Unknown)
               => /\ Called("get_workflow_run")
                  /\ validation_result.initiated_by \in
                       {workflow_run.triggering_actor.login, workflow_run.actor.login}
    /\ LookupOnlyAsLastResort

\* deployment.payload.actor "A" wins over triggering_actor and sender.login "b".
C6_Witness ==
    /\ pc = "validated"
    /\ Strategy1 = Str(<<"A">>)
    /\ Identity(Strategy2)
    /\ Strategy3 = Str(<<"b">>)
    /\ validation_result.initiated_by = Str(<<"A">>)

\* C7: whenever get_workflow_run returns a run (whose triggering_actor, when
\* there, is an object), the resolved identity is triggering_actor.login when
\* that is non-empty and otherwise actor.login; it is "Unknown" only if
\* neither login is non-empty.
C7_RunLoginThenActor ==
    /\ validation_result.returned
    /\ workflow_run.kind = "obj"
    /\ workflow_run.triggering_actor.kind # "null"
    => validation_result.initiated_by =
         IF Identity(workflow_run.triggering_actor.login)
         THEN workflow_run.triggering_actor.login
         ELSE IF Identity(workflow_run.actor.login) THEN workflow_run.actor.login
         ELSE Str(Unknown)

\* The request passed parsing, signature, token and filter checks and went
\* on to outbound calls.
ReachedGateway ==
    /\ PassedFilter
    /\ ~BadSignature
    /\ env.GITHUB_TOKEN # ""
    /\ calls # <<>>

\* C8: a request that passed the checks ends with 200 and the status decided
\* by validation whatever outbound call failed, and a failed callback is
\* echoed as an {error: ...} object in rejection_result / approval_result.
C8_GatewayFailureInBand ==
    pc = "done" /\ ReachedGateway =>
        /\ validation_result.returned
        /\ response.status_code = 200
        /\ response.status = IF validation_result.is_valid THEN "approved" ELSE "rejected"
        /\ \A i \in DOMAIN calls :
              calls[i].op \in {"approve_deployment", "reject_deployment"} =>
                  (calls[i].failed <=> response.result.kind = "error")

\* All three outbound calls of a request failed, and the answer is 200 rejected.
C8_Witness ==
    /\ pc = "done"
    /\ Len(calls) = 3
    /\ \A i \in DOMAIN calls : calls[i].failed
    /\ Truthy(callback_url)
    /\ response.status_code = 200
    /\ response.result.kind = "error"

\* None of the four strategies yields a non-empty identity.
NoStrategyYields ==
    /\ ~Truthy(Strategy1) /\ ~Truthy(Strategy2) /\ ~Truthy(Strategy3)
    /\ ~Truthy(workflow_run.triggering_actor.login)
    /\ ~Truthy(workflow_run.actor.login)

\* C9: when no strategy yields a non-empty identity, or an exception was
\* caught inside resolution, validate_deployment_user returns is_valid false
\* with initiated_by "Unknown" and an error message; the handler then calls
\* reject_deployment (never approve_deployment) and returns 200 with status
\* "rejected" and initiated_by "Unknown".
C9_UnknownIsRejected ==
    /\ pc \in {"validated", "summary", "respond"} => validation_result.returned
    /\ validation_result.returned /\ (NoStrategyYields \/ ResolutionRaised) =>
          /\ ~validation_result.is_valid
          /\ validation_result.initiated_by = Str(Unknown)
          /\ validation_result.error # ""
          /\ ~Called("approve_deployment")
          /\ pc = "done" =>
                /\ CountCalls("reject_deployment") = 1
                /\ response.status_code = 200
                /\ response.status = "rejected"
                /\ response.initiated_by = Str(Unknown)

\* A sender of unexpected shape (a string) raised inside resolution.
C9_Witness ==
    /\ pc = "done"
    /\ sender.kind = "str"
    /\ validation_result.error = "AttributeError"
    /\ response.status = "rejected"
    /\ response.initiated_by = Str(Unknown)
    /\ Called("reject_deployment")


\* A plain name: no delimiter and no whitespace in it.
Plain(s) == \A i \in 1..Len(s) : s[i] \notin {"@", "\\", "/", " "}

Least(S) == CHOOSE i \in S : \A j \in S : i <= j
Greatest(S) == CHOOSE i \in S : \A j \in S : j <= i

\* The text before the first "@", from after its last "\" or "/", without the
\* whitespace around it.
ExpectedUsername(s) ==
    LET ats == {i \in 1..Len(s) : s[i] = "@"}
        cut == IF ats = {} THEN Len(s) + 1 ELSE Least(ats)
        seps == {i \in 1..(cut - 1) : s[i] \in {"\\", "/"}}
        from == IF seps = {} THEN 1 ELSE Greatest(seps) + 1
        ink == {i \in from..(cut - 1) : s[i] # " "}
    IN  IF ink = {} THEN <<>> ELSE SubSeq(s, Least(ink), Greatest(ink))

\* C10: _extract_username returns user for user@domain, user for DOMAIN\user,
\* user for org/user, a plain name unchanged and "" for ""; on every string
\* the "@" suffix goes first, then the prefix up to the last "\" or "/", then
\* the surrounding whitespace.
C10_ExtractUsername ==
    pc = "return" =>
        /\ user_string = <<>> => username = <<>>
        /\ Plain(user_string) => username = user_string
        /\ \A i \in 1..Len(user_string) :
              LET before == SubSeq(user_string, 1, i - 1)
                  after == SubSeq(user_string, i + 1, Len(user_string))
              IN  Plain(before) /\ Plain(after) =>
                    /\ user_string[i] = "@" => username = before
                    /\ user_string[i] \in {"\\", "/"} => username = after
        /\ username = ExpectedUsername(user_string)

\* "a@/": the "@" suffix is removed before the slash prefix is looked for.
C10_Witness ==
    /\ pc = "return"
    /\ user_string = <<"a", "@", "/">>
    /\ username = <<"a">>


\* Where an operation stands in the order of a request's outbound calls.
CallRank(op) ==
    CASE op = "get_workflow_run" -> 1
      [] op \in {"approve_deployment", "reject_deployment"} -> 2
      [] OTHER -> 3

\* C11: the outbound calls of a request are at most one get_workflow_run,
\* then at most one decision callback (approve_deployment or
\* reject_deployment, never both), then at most one
\* add_workflow_summary_error, which comes only after a reject and only with
\* workflow.id present; the decision call comes after resolution has
\* returned and before the response is produced; there are never more than
\* three calls.
C11_CallTraceShape ==
    /\ Len(calls) <= 3
    /\ \A i, j \in DOMAIN calls : i < j => CallRank(calls[i].op) < CallRank(calls[j].op)
    /\ ~(Called("approve_deployment") /\ Called("reject_deployment"))
    /\ Called("add_workflow_summary_error") =>
          /\ Called("reject_deployment")
          /\ Truthy(workflow.id)
    /\ ~NoDecisionCall => validation_result.returned
    /\ response # NoResponse => pc = "done"
    /\ response.status \in {"approved", "rejected"} =>
          CountCalls(IF response.status = "approved"
                     THEN "approve_deployment" ELSE "reject_deployment") = 1

\* A request with all three calls, in order, and its response produced.
C11_Witness ==
    /\ pc = "done"
    /\ Len(calls) = 3
    /\ calls[1].op = "get_workflow_run"
    /\ calls[2].op = "reject_deployment"
    /\ calls[3].op = "add_workflow_summary_error"
    /\ response.status = "rejected"

\* C12: whenever approve_deployment is called, username_checked (the
\* _extract_username form of the resolved initiator) is a non-empty string.
C12_NoApprovalOnEmptyIdentity ==
    Called("approve_deployment") => Identity(validation_result.username_checked)

====
